---- MODULE Spec2Model ----
(***************************************************************************)
(* Timer-controlled ADC acquisition for the ATMega328p (src/src/main.cpp). *)
(*                                                                         *)
(* The program is one background thread (main) and two interrupt service   *)
(* routines, ISR(TIMER0_COMPA_vect) and ISR(ADC_vect).  The model follows  *)
(* the CPU statement by statement (pc is the call stack of interrupted     *)
(* contexts) and lets the three peripherals the code drives -- Timer 0,    *)
(* the ADC and the USART transmitter -- act at any moment between two      *)
(* statements, as the hardware does.                                       *)
(***************************************************************************)
EXTENDS Integers, Sequences, FiniteSets

\* ADC_SPL_TH (main.cpp:41): samples per block in the shipped build.
ADC_SPL_TH == 128

\* '\n' (main.cpp:86): the termination character.
TERMINATOR == 10

\* Width of uint8_t ADC_SPL_COUNT (main.cpp:40).
UINT8 == 256

\* No byte in a transmit register (outside 0..255).
None == 0 - 1

\* Block lengths explored besides ADC_SPL_TH itself.
FrameLengths == {1, 2, 3}

\* Conversion results in those runs: one whose high byte is the
\* terminator's code and one whose high byte is another value.
SampleValues == {4 * TERMINATOR + 3, 4 * 171 + 1}

\* Every result the 10-bit converter can deliver.
RawResults == 0..1023

\* In those runs Timer 0 stops matching once this many bytes were written
\* to UDR0.
MaxSent == 7

\* Bytes written past two full blocks in the run with ADC_SPL_TH itself.
MaxExtra == 1

VARIABLES
    FrameLength,    \* the value ADC_SPL_TH is built with
    AnalogIn,       \* the 10-bit results the analog input can convert to
    SentLimit,      \* the run's length, in bytes written to UDR0
    Endless,        \* the run never stops; it remembers SentLimit entries
    pc,             \* stack of program counters: main, then the ISR running
    SREG_I,         \* global interrupt enable, SREG bit 7
    mustStep,       \* one instruction runs before the next interrupt is taken
    ADC_SPL_COUNT,  \* volatile uint8_t ADC_SPL_COUNT
    CS0,            \* Timer 0 clock selected and OCIE0A set: the timer runs
    OCF0A,          \* Timer 0 compare-match flag (interrupt pending)
    ADEN,           \* ADC enabled, auto-triggered, ADIE set
    ADSC,           \* ADCSRA.ADSC: a conversion is in progress
    ADIF,           \* ADCSRA.ADIF: a conversion completed, interrupt pending
    ADCH,           \* ADC data register, high byte
    ADCres,         \* the 10-bit result the data register holds
    ADLAR,          \* ADMUX.ADLAR: the result is left-adjusted
    rmw,            \* ADIF as read by the read-modify-write of line 57 (the
                    \* register is dead after line 66)
    arg,            \* the argument of the USART_Transmit call of line 70
    UDRE,           \* UCSR0A.UDRE0: the transmit buffer is empty
    UDR0,           \* the transmit buffer
    TSR,            \* the transmit shift register
    TXEN0,          \* UCSR0B.TXEN0: the transmitter is enabled
    PORTB4,         \* oscilloscope trace pins
    PORTB5,
    sent,           \* history: every write to UDR0, with its call site
    acq,            \* history: every ADCH value read at line 70
    raws,           \* history: the 10-bit result held at each of those reads
    unread,         \* history: a conversion completed since the last read
    verdict,        \* history: what ADIF was at this tick's check of line 66
    busyAtTick,     \* history: the pending tick fired on a busy converter
    busyTick,       \* history: so did the tick the running handler serves
    entered         \* history: an interrupt handler has been entered

vars == <<FrameLength, AnalogIn, SentLimit, Endless, pc, SREG_I, mustStep,
          ADC_SPL_COUNT, CS0, OCF0A, ADEN, ADSC, ADIF, ADCH, ADCres, ADLAR,
          rmw, arg, UDRE, UDR0, TSR, TXEN0, PORTB4, PORTB5, sent, acq, raws,
          unread, verdict, busyAtTick, busyTick, entered>>

cfgv == <<FrameLength, AnalogIn, SentLimit, Endless>>
timer == <<CS0, OCF0A>>
adc == <<ADEN, ADSC, ADIF, ADCH, ADCres, ADLAR>>
usart == <<UDRE, UDR0, TSR, TXEN0>>
ports == <<PORTB4, PORTB5>>
hist == <<sent, acq, raws, unread, verdict>>
tick == <<busyAtTick, busyTick, entered>>

----------------------------------------------------------------------------
(* The CPU: program counters and interrupt dispatch.                       *)

top == pc[Len(pc)]
goto(l) == [pc EXCEPT ![Len(pc)] = l]

TimerPcs == {"t57r", "t57w", "t66", "t68", "t70", "t86", "t89", "t92"}
AdcPcs == {"a97"}
MainPcs == {"m106", "m112", "m119", "m131", "m158", "m184", "loop"}

\* Reset state of the device, then the C runtime's initialisation of
\* ADC_SPL_COUNT, at the entry of main.
Reset(n, vals, limit, endless) ==
    /\ FrameLength = n
    /\ AnalogIn = vals
    /\ SentLimit = limit
    /\ Endless = endless
    /\ pc = <<"m106">>
    /\ SREG_I = FALSE
    /\ mustStep = FALSE
    /\ ADC_SPL_COUNT = 0
    /\ CS0 = FALSE
    /\ OCF0A = FALSE
    /\ ADEN = FALSE
    /\ ADSC = FALSE
    /\ ADIF = FALSE
    /\ ADCH = 0
    /\ ADCres = 0
    /\ ADLAR = FALSE
    /\ rmw = FALSE
    /\ arg = None
    /\ UDRE = TRUE
    /\ UDR0 = None
    /\ TSR = None
    /\ TXEN0 = FALSE
    /\ PORTB4 = FALSE
    /\ PORTB5 = FALSE
    /\ sent = <<>>
    /\ acq = <<>>
    /\ raws = <<>>
    /\ unread = FALSE
    /\ verdict = "none"
    /\ busyAtTick = FALSE
    /\ busyTick = FALSE
    /\ entered = FALSE

\* The runs explored: every short block length on an input that converts
\* to either value of SampleValues; and the shipped build, ADC_SPL_TH = 128,
\* for two blocks on a grounded input (every conversion yields 0).
Configurations ==
    {[n |-> n, vals |-> SampleValues, limit |-> MaxSent] : n \in FrameLengths}
    \cup {[n |-> ADC_SPL_TH, vals |-> {0},
           limit |-> 2 * (ADC_SPL_TH + 1) + MaxExtra]}

Init == \E c \in Configurations : Reset(c.n, c.vals, c.limit, FALSE)

\* A history of the run: all of it in a run that stops, its last SentLimit
\* entries in one that does not.
Record(h, x) ==
    LET a == Append(h, x) IN
    IF Endless /\ Len(a) > SentLimit THEN Tail(a) ELSE a

----------------------------------------------------------------------------
(* The peripherals.  Each acts between two CPU statements.                 *)

\* Timer 0 reaches OCR0A: the compare flag rises, and its rising edge is
\* the ADC's auto-trigger source (ADTS = Timer0 Compare Match A).  While
\* the flag is still set a further match raises no edge.
TimerMatch ==
    /\ CS0
    /\ ~OCF0A
    /\ (Endless \/ Len(sent) < SentLimit)
    /\ OCF0A' = TRUE
    /\ ADSC' = (ADSC \/ ADEN)
    /\ busyAtTick' = (ADSC \/ ADIF)
    /\ UNCHANGED <<cfgv, pc, SREG_I, mustStep, ADC_SPL_COUNT, CS0, ADEN,
                   ADIF, ADCH, ADCres, ADLAR, rmw, arg, usart, ports, hist,
                   busyTick, entered>>

\* Variant of the data register: the result is right-adjusted whatever
\* ADLAR is.
DataRegister_Right(adlar, r) == r

\* The 16-bit ADC data register holding the 10-bit result r: bits 15..6
\* when ADLAR is set, bits 9..0 when it is clear.
DataRegister(adlar, r) == IF adlar THEN (r * 64) % 65536 ELSE r

\* The high byte of the data register, which is all line 70 reads.
HighByte(w) == w \div UINT8

\* The conversion in progress completes: the result is latched in the data
\* register and ADIF is raised.
ADC_Complete ==
    /\ ADSC
    /\ \E r \in AnalogIn :
          /\ ADCres' = r
          /\ ADCH' = HighByte(DataRegister(ADLAR, r))
    /\ ADIF' = TRUE
    /\ ADSC' = FALSE
    /\ unread' = TRUE
    /\ UNCHANGED <<cfgv, pc, SREG_I, mustStep, ADC_SPL_COUNT, timer, ADEN,
                   ADLAR, rmw, arg, usart, ports, sent, acq, raws, verdict,
                   tick>>

\* Variant: the byte leaves the buffer but UDRE0 is not raised.
USART_Load_NoFlag ==
    /\ TXEN0
    /\ UDR0 # None
    /\ TSR = None
    /\ TSR' = UDR0
    /\ UDR0' = None
    /\ UNCHANGED <<cfgv, TXEN0, UDRE, pc, SREG_I, mustStep, ADC_SPL_COUNT,
                   timer, adc, rmw, arg, ports, hist, tick>>

\* The transmitter moves the buffered byte into the idle shift register;
\* the buffer is empty again.
USART_Load ==
    /\ TXEN0
    /\ UDR0 # None
    /\ TSR = None
    /\ TSR' = UDR0
    /\ UDR0' = None
    /\ UDRE' = TRUE
    /\ UNCHANGED <<cfgv, TXEN0, pc, SREG_I, mustStep, ADC_SPL_COUNT, timer,
                   adc, rmw, arg, ports, hist, tick>>

\* The shift register has put its last bit on the line.
USART_Shift ==
    /\ TSR # None
    /\ TSR' = None
    /\ UNCHANGED <<cfgv, pc, SREG_I, mustStep, ADC_SPL_COUNT, timer, adc,
                   rmw, arg, UDRE, UDR0, TXEN0, ports, hist, tick>>

\* The CPU takes the Timer 0 compare interrupt: the flag is cleared, the
\* return address pushed and, ISR() being ISR_BLOCK, I stays cleared until
\* the handler's reti.
\* Variant: the handler is entered with I left set (ISR_NOBLOCK).
IRQ_TIMER0_COMPA_NoBlock ==
    /\ SREG_I
    /\ ~mustStep
    /\ CS0 /\ OCF0A
    /\ pc' = Append(pc, "t57r")
    /\ OCF0A' = FALSE
    /\ busyTick' = busyAtTick
    /\ busyAtTick' = FALSE
    /\ entered' = TRUE
    /\ UNCHANGED <<cfgv, SREG_I, mustStep, ADC_SPL_COUNT, CS0, adc, rmw, arg,
                   usart, ports, hist>>

IRQ_TIMER0_COMPA ==
    /\ SREG_I
    /\ ~mustStep
    /\ CS0 /\ OCF0A
    /\ pc' = Append(pc, "t57r")
    /\ SREG_I' = FALSE
    /\ OCF0A' = FALSE
    /\ busyTick' = busyAtTick
    /\ busyAtTick' = FALSE
    /\ entered' = TRUE
    /\ UNCHANGED <<cfgv, mustStep, ADC_SPL_COUNT, CS0, adc, rmw, arg, usart,
                   ports, hist>>

\* The CPU takes the ADC interrupt (lower priority than Timer 0's): ADIF is
\* cleared by hardware on entry.
IRQ_ADC ==
    /\ SREG_I
    /\ ~mustStep
    /\ ADEN /\ ADIF
    /\ ~(CS0 /\ OCF0A)
    /\ pc' = Append(pc, "a97")
    /\ SREG_I' = FALSE
    /\ ADIF' = FALSE
    /\ entered' = TRUE
    /\ UNCHANGED <<cfgv, mustStep, ADC_SPL_COUNT, timer, ADEN, ADSC, ADCH,
                   ADCres, ADLAR, rmw, arg, usart, ports, hist, busyAtTick,
                   busyTick>>

\* reti: pop the interrupted context and set I; the interrupted code runs
\* one instruction before another interrupt is taken.
reti ==
    /\ pc' = SubSeq(pc, 1, Len(pc) - 1)
    /\ SREG_I' = TRUE
    /\ mustStep' = TRUE

----------------------------------------------------------------------------
(* static void USART_Transmit(uint8_t data), called at `site`, returning   *)
(* to `next`.  The while loop spins until UDRE0 is set; then UDR0 = data.  *)

\* Variant: the wait loop of line 46 is missing.
USART_Transmit_NoWait(data, site, next) ==
    /\ UDR0' = data
    /\ UDRE' = FALSE
    /\ sent' = Record(sent, [byte |-> data, site |-> site])
    /\ pc' = goto(next)
    /\ UNCHANGED <<TSR, TXEN0>>

USART_Transmit(data, site, next) ==
    /\ UDRE
    /\ UDR0' = data
    /\ UDRE' = FALSE
    /\ sent' = Record(sent, [byte |-> data, site |-> site])
    /\ pc' = goto(next)
    /\ UNCHANGED <<TSR, TXEN0>>

----------------------------------------------------------------------------
(* ISR(TIMER0_COMPA_vect)                                                  *)

\* Line 57, ADCSRA |= (1 << ADSC): the load of ADCSRA.
T57_Read ==
    /\ top = "t57r"
    /\ rmw' = ADIF
    /\ pc' = goto("t57w")
    /\ mustStep' = FALSE
    /\ UNCHANGED <<cfgv, SREG_I, ADC_SPL_COUNT, timer, adc, arg, usart,
                   ports, hist, tick>>

\* Variant of the store of line 57: the conversion is requested only when
\* no result is waiting (ADIF read clear).
T57_Write_IfNoResult ==
    /\ top = "t57w"
    /\ ADSC' = (ADSC \/ ~rmw)
    /\ ADIF' = ADIF
    /\ PORTB4' = TRUE
    /\ PORTB5' = TRUE
    /\ pc' = goto("t66")
    /\ mustStep' = FALSE
    /\ UNCHANGED <<cfgv, SREG_I, ADC_SPL_COUNT, timer, ADEN, ADCH, ADCres,
                   ADLAR, rmw, arg, usart, hist, tick>>

\* Line 57, the store: ADSC is written 1 (a conversion starts unless one is
\* in progress) and ADIF is written back as read, which clears it when it
\* was read set.  Lines 62-63 raise both trace pins.
T57_Write ==
    /\ top = "t57w"
    /\ ADSC' = TRUE
    /\ ADIF' = (ADIF /\ ~rmw)
    /\ PORTB4' = TRUE
    /\ PORTB5' = TRUE
    /\ pc' = goto("t66")
    /\ mustStep' = FALSE
    /\ UNCHANGED <<cfgv, SREG_I, ADC_SPL_COUNT, timer, ADEN, ADCH, ADCres,
                   ADLAR, rmw, arg, usart, hist, tick>>

\* Variant of line 66: the test is missing.
AfterCheck_Always(adif) == "t68"

\* Line 66, if ( ! ( ADCSRA & (1 << ADIF))): where the handler goes next.
AfterCheck(adif) == IF ~adif THEN "t68" ELSE "t92"

T66_Check ==
    /\ top = "t66"
    /\ pc' = goto(AfterCheck(ADIF))
    /\ verdict' = IF ADIF THEN "stale" ELSE "accepted"
    /\ rmw' = FALSE
    /\ mustStep' = FALSE
    /\ UNCHANGED <<cfgv, SREG_I, ADC_SPL_COUNT, timer, adc, arg, usart,
                   ports, sent, acq, raws, unread, tick>>

\* Variant of line 68: the counter is decremented.
T68_Count_Down ==
    /\ top = "t68"
    /\ ADC_SPL_COUNT' = (ADC_SPL_COUNT - 1) % UINT8
    /\ arg' = ADCH
    /\ acq' = Record(acq, ADCH)
    /\ raws' = Record(raws, ADCres)
    /\ unread' = FALSE
    /\ pc' = goto("t70")
    /\ mustStep' = FALSE
    /\ UNCHANGED <<cfgv, SREG_I, timer, adc, rmw, usart, ports, sent,
                   verdict, tick>>

\* Variant of line 68: the increment is missing.
T68_NoCount ==
    /\ top = "t68"
    /\ arg' = ADCH
    /\ acq' = Record(acq, ADCH)
    /\ raws' = Record(raws, ADCres)
    /\ unread' = FALSE
    /\ pc' = goto("t70")
    /\ mustStep' = FALSE
    /\ UNCHANGED <<cfgv, SREG_I, ADC_SPL_COUNT, timer, adc, rmw, usart, ports,
                   sent, verdict, tick>>

\* Line 68, ADC_SPL_COUNT++, and the read of ADCH that is the argument of
\* line 70's call.
T68_Count ==
    /\ top = "t68"
    /\ ADC_SPL_COUNT' = (ADC_SPL_COUNT + 1) % UINT8
    /\ arg' = ADCH
    /\ acq' = Record(acq, ADCH)
    /\ raws' = Record(raws, ADCres)
    /\ unread' = FALSE
    /\ pc' = goto("t70")
    /\ mustStep' = FALSE
    /\ UNCHANGED <<cfgv, SREG_I, timer, adc, rmw, usart, ports, sent,
                   verdict, tick>>

\* Variant of line 71: > for >=.
AfterSample_Gt(count) == IF count > FrameLength THEN "t86" ELSE "t92"

\* Line 71, if (ADC_SPL_COUNT >= ADC_SPL_TH): where the handler goes next.
AfterSample(count) == IF count >= FrameLength THEN "t86" ELSE "t92"

\* Line 70, USART_Transmit(ADCH), then the test of line 71.
T70_SendSample ==
    /\ top = "t70"
    /\ USART_Transmit(arg, "sample", AfterSample(ADC_SPL_COUNT))
    /\ arg' = None
    /\ mustStep' = FALSE
    /\ UNCHANGED <<cfgv, SREG_I, ADC_SPL_COUNT, timer, adc, rmw, ports, acq,
                   raws, unread, verdict, tick>>

\* Line 86, USART_Transmit('\n').
T86_SendTerminator ==
    /\ top = "t86"
    /\ USART_Transmit(TERMINATOR, "terminator", "t89")
    /\ mustStep' = FALSE
    /\ UNCHANGED <<cfgv, SREG_I, ADC_SPL_COUNT, timer, adc, rmw, arg, ports,
                   acq, raws, unread, verdict, tick>>

\* Variant of line 89: the reset is missing.
T89_NoReset ==
    /\ top = "t89"
    /\ pc' = goto("t92")
    /\ mustStep' = FALSE
    /\ UNCHANGED <<cfgv, SREG_I, ADC_SPL_COUNT, timer, adc, rmw, arg, usart,
                   ports, hist, tick>>

\* Line 89, ADC_SPL_COUNT = 0.
T89_Reset ==
    /\ top = "t89"
    /\ ADC_SPL_COUNT' = 0
    /\ pc' = goto("t92")
    /\ mustStep' = FALSE
    /\ UNCHANGED <<cfgv, SREG_I, timer, adc, rmw, arg, usart, ports, hist,
                   tick>>

\* Line 92, CLR(PORTB, 4), and the handler's return.
T92_Return ==
    /\ top = "t92"
    /\ PORTB4' = FALSE
    /\ verdict' = "none"
    /\ busyTick' = FALSE
    /\ reti
    /\ UNCHANGED <<cfgv, ADC_SPL_COUNT, timer, adc, rmw, arg, usart, PORTB5,
                   sent, acq, raws, unread, busyAtTick, entered>>

TIMER0_COMPA_vect ==
    \/ T57_Read
    \/ T57_Write
    \/ T66_Check
    \/ T68_Count
    \/ T70_SendSample
    \/ T86_SendTerminator
    \/ T89_Reset
    \/ T92_Return

----------------------------------------------------------------------------
(* ISR(ADC_vect): CLR(PORTB, 5) and return.                                *)

\* Variant: the completion handler resets the sample counter.
ADC_vect_Reset ==
    /\ top = "a97"
    /\ PORTB5' = FALSE
    /\ ADC_SPL_COUNT' = 0
    /\ reti
    /\ UNCHANGED <<cfgv, timer, adc, rmw, arg, usart, PORTB4, hist, tick>>

ADC_vect ==
    /\ top = "a97"
    /\ PORTB5' = FALSE
    /\ reti
    /\ UNCHANGED <<cfgv, ADC_SPL_COUNT, timer, adc, rmw, arg, usart, PORTB4,
                   hist, tick>>

----------------------------------------------------------------------------
(* int main(void)                                                          *)

\* Line 106: disable global interrupts.
M106_Cli ==
    /\ top = "m106"
    /\ SREG_I' = FALSE
    /\ pc' = goto("m112")
    /\ mustStep' = FALSE
    /\ UNCHANGED <<cfgv, ADC_SPL_COUNT, timer, adc, rmw, arg, usart, ports,
                   hist, tick>>

\* Lines 112-115: port B cleared, pins 4 and 5 outputs.
M112_Ports ==
    /\ top = "m112"
    /\ PORTB4' = FALSE
    /\ PORTB5' = FALSE
    /\ pc' = goto("m119")
    /\ mustStep' = FALSE
    /\ UNCHANGED <<cfgv, SREG_I, ADC_SPL_COUNT, timer, adc, rmw, arg, usart,
                   hist, tick>>

\* Lines 119-126: baud rate, transmitter enable, 8-bit frames.  The
\* transmitter starts with its buffer empty.
M119_Usart ==
    /\ top = "m119"
    /\ UDRE' = TRUE
    /\ UDR0' = None
    /\ TSR' = None
    /\ TXEN0' = TRUE
    /\ pc' = goto("m131")
    /\ mustStep' = FALSE
    /\ UNCHANGED <<cfgv, SREG_I, ADC_SPL_COUNT, timer, adc, rmw, arg, ports,
                   hist, tick>>

\* Variant: the timer's setup also sets I, before the ADC is configured.
M131_Timer_Sei ==
    /\ top = "m131"
    /\ CS0' = TRUE
    /\ SREG_I' = TRUE
    /\ pc' = goto("m158")
    /\ mustStep' = FALSE
    /\ UNCHANGED <<cfgv, ADC_SPL_COUNT, OCF0A, adc, rmw, arg, usart, ports,
                   hist, tick>>

\* Lines 131-152: Timer 0 in CTC mode, prescaler 8, OCR0A = 39, compare
\* interrupt enabled: the timer runs from here on.
M131_Timer ==
    /\ top = "m131"
    /\ CS0' = TRUE
    /\ pc' = goto("m158")
    /\ mustStep' = FALSE
    /\ UNCHANGED <<cfgv, SREG_I, ADC_SPL_COUNT, OCF0A, adc, rmw, arg, usart,
                   ports, hist, tick>>

\* Lines 158-179: ADC on channel 0, left-adjusted (line 166), auto-triggered
\* by Timer 0 compare match A, interrupt enabled, first conversion started.
M158_Adc ==
    /\ top = "m158"
    /\ ADLAR' = TRUE
    /\ ADEN' = TRUE
    /\ ADSC' = TRUE
    /\ pc' = goto("m184")
    /\ mustStep' = FALSE
    /\ UNCHANGED <<cfgv, SREG_I, ADC_SPL_COUNT, timer, ADIF, ADCH, ADCres,
                   rmw, arg, usart, ports, hist, tick>>

\* Line 184: enable global interrupts.
M184_Sei ==
    /\ top = "m184"
    /\ SREG_I' = TRUE
    /\ pc' = goto("loop")
    /\ mustStep' = TRUE
    /\ UNCHANGED <<cfgv, ADC_SPL_COUNT, timer, adc, rmw, arg, usart, ports,
                   hist, tick>>

\* Lines 186-189: while (1) {}.  Only the first turn after a reti or after
\* line 184 changes anything: it lets the next interrupt in.
M186_Loop ==
    /\ top = "loop"
    /\ mustStep
    /\ mustStep' = FALSE
    /\ UNCHANGED <<cfgv, pc, SREG_I, ADC_SPL_COUNT, timer, adc, rmw, arg,
                   usart, ports, hist, tick>>

main ==
    \/ M106_Cli
    \/ M112_Ports
    \/ M119_Usart
    \/ M131_Timer
    \/ M158_Adc
    \/ M184_Sei
    \/ M186_Loop

----------------------------------------------------------------------------

Next ==
    \/ main
    \/ TIMER0_COMPA_vect
    \/ ADC_vect
    \/ IRQ_TIMER0_COMPA
    \/ IRQ_ADC
    \/ TimerMatch
    \/ ADC_Complete
    \/ USART_Load
    \/ USART_Shift

Spec == Init /\ [][Next]_vars

\* Runs on a steady input, one for every result the converter can deliver:
\* blocks of one sample, until ADCLimit bytes were written.
ADCLimit == 1

InitADC == \E r \in RawResults : Reset(1, {r}, ADCLimit, FALSE)

SpecADC == InitADC /\ [][Next]_vars

\* Runs that never stop: Timer 0 keeps matching for the lifetime of the
\* device; the histories keep their last LiveWindow entries.
LiveWindow == 2

\* Block lengths of those runs.
LiveFrameLengths == {1, 2}

InitLive ==
    \E n \in LiveFrameLengths : Reset(n, SampleValues, LiveWindow, TRUE)

\* What the hardware guarantees of such a run: the CPU executes the next
\* instruction, and takes a pending interrupt once I is set; Timer 0 keeps
\* counting; a started conversion completes; the transmitter shifts out
\* what it was given, so the transmit buffer always empties again.
Fairness ==
    /\ WF_vars(main \/ TIMER0_COMPA_vect \/ ADC_vect)
    /\ WF_vars(IRQ_TIMER0_COMPA)
    /\ WF_vars(IRQ_ADC)
    /\ WF_vars(TimerMatch)
    /\ WF_vars(ADC_Complete)
    /\ WF_vars(USART_Load)
    /\ WF_vars(USART_Shift)

LiveSpec == InitLive /\ [][Next]_vars /\ Fairness

----------------------------------------------------------------------------
(* Vocabulary of the properties.                                           *)

\* No interrupt handler is executing: the CPU is in main.
HandlerIdle == Len(pc) = 1

\* No frame of ISR(TIMER0_COMPA_vect) is on the stack.
TimerHandlerIdle == \A i \in DOMAIN pc : pc[i] \notin TimerPcs

\* The CPU is inside a USART_Transmit call, spinning on UDRE0.
BusyWaiting == top \in {"t70", "t86"} /\ ~UDRE

\* The bytes written to UDR0, in order.
Bytes == [i \in DOMAIN sent |-> sent[i].byte]

IsSample(i) == sent[i].site = "sample"
IsTerminator(i) == sent[i].site = "terminator"

NumSamples == Cardinality({i \in DOMAIN sent : IsSample(i)})
NumTerminators == Cardinality({i \in DOMAIN sent : IsTerminator(i)})

\* v1 .. vN TERMINATOR vN+1 .. v2N TERMINATOR ..., truncated at Len(vals).
Framed(vals, n) ==
    [j \in 1..(Len(vals) + (Len(vals) \div n)) |->
        IF j % (n + 1) = 0 THEN TERMINATOR ELSE vals[j - (j \div (n + 1))]]

IsPrefix(s, t) == Len(s) <= Len(t) /\ \A i \in DOMAIN s : s[i] = t[i]

----------------------------------------------------------------------------
(* C1 *)
\* C1: the bytes written to the transport are the acquired values in
\* acquisition order, unmodified, with one terminator after every
\* FrameLength-th value and nowhere else: equal to the framed sequence once
\* the handler has returned, a prefix of it while the handler is sending.
C1_FramedStream ==
    /\ IsPrefix(Bytes, Framed(acq, FrameLength))
    /\ HandlerIdle => Bytes = Framed(acq, FrameLength)

\* A stream of more than one block and a truncated one, holding both values.
C1_Witness ==
    /\ HandlerIdle
    /\ FrameLength = 2
    /\ Len(acq) = 5
    /\ Len(sent) = 7
    /\ \E i, j \in DOMAIN acq : acq[i] # acq[j]

----------------------------------------------------------------------------
(* C2 *)
\* The last FrameLength bytes written are samples, and they follow a
\* terminator or the start of the stream.
FullBlock ==
    LET k == Len(sent) IN
    /\ k >= FrameLength
    /\ \A j \in (k - FrameLength + 1)..k : IsSample(j)
    /\ (k = FrameLength \/ IsTerminator(k - FrameLength))

\* C2: the byte written after exactly FrameLength consecutive sample bytes
\* since the last terminator (or since start) is the terminator, a
\* terminator is written at no other point, and once the handler has
\* returned after a terminator ADC_SPL_COUNT is 0; this at every byte of
\* the stream, block after block.
C2_TerminatorAfterN ==
    /\ [][sent' # sent =>
             LET new == sent'[Len(sent')] IN
             /\ sent' = Append(sent, new)
             /\ (new.site = "terminator") <=> FullBlock
             /\ (new.site = "terminator") => new.byte = TERMINATOR]_vars
    /\ []((HandlerIdle /\ Len(sent) > 0 /\ IsTerminator(Len(sent)))
            => ADC_SPL_COUNT = 0)

\* The second block of three samples has been terminated and the handler
\* has returned.
C2_Witness ==
    /\ HandlerIdle
    /\ FrameLength = 3
    /\ Len(sent) = 8
    /\ IsTerminator(4) /\ IsTerminator(8)
    /\ ADC_SPL_COUNT = 0

----------------------------------------------------------------------------
(* C3 *)
\* C3: a tick that fires while the converter is still marked busy -- the
\* previous conversion still in progress (ADSC) or its result not yet
\* consumed (ADIF pending) -- changes neither ADC_SPL_COUNT nor the bytes
\* written, from the handler's entry to its return.
C3_StaleSuppressed ==
    [][busyTick => (ADC_SPL_COUNT' = ADC_SPL_COUNT /\ sent' = sent)]_vars

\* What the code does keep of it: a tick whose test of line 66 reads ADIF
\* set goes to line 92 with the counter and the stream as they were.
C3_FlagSetBranch ==
    [][(verdict = "stale" \/ verdict' = "stale")
          => (ADC_SPL_COUNT' = ADC_SPL_COUNT /\ sent' = sent)]_vars

\* A tick found with ADIF set at line 66 about to return, in the middle of
\* a block.
C3_FlagSetWitness ==
    /\ verdict = "stale"
    /\ top = "t92"
    /\ ADC_SPL_COUNT = 1
    /\ Len(sent) = 1

----------------------------------------------------------------------------
(* C4 *)
\* C4 as stated: in every reachable state the number of sample bytes
\* written equals the number of accepted conversions and the number of
\* terminators equals floor(accepted / FrameLength).
C4_Original ==
    /\ NumSamples = Len(acq)
    /\ NumTerminators = Len(acq) \div FrameLength

\* C4 as amended: the two equalities hold in every state in which the tick
\* handler is not executing; while it executes, each count is the expected
\* one or one short of it (the byte is the next to be written).
C4_ExactlyOnce ==
    /\ HandlerIdle => C4_Original
    /\ NumSamples \in {Len(acq) - 1, Len(acq)}
    /\ NumTerminators \in {(Len(acq) \div FrameLength) - 1,
                           Len(acq) \div FrameLength}
    /\ NumSamples + NumTerminators = Len(sent)

\* Two full blocks and one more sample written, handler returned.
C4_Witness ==
    /\ HandlerIdle
    /\ FrameLength = 2
    /\ Len(acq) = 5
    /\ NumSamples = 5
    /\ NumTerminators = 2

----------------------------------------------------------------------------
(* C5 *)
\* The states other code can observe, as C5 lists them: main or the other
\* handler running, or the updating handler spinning inside the send.
C5_Observable == TimerHandlerIdle \/ BusyWaiting

\* C5 as stated: ADC_SPL_COUNT is in [0, FrameLength) in every such state,
\* the busy-wait states included.
C5_Original == C5_Observable => ADC_SPL_COUNT \in 0..(FrameLength - 1)

\* C5 as amended: ADC_SPL_COUNT is in [0, FrameLength) whenever the tick
\* handler is not executing (the only states in which other code runs);
\* inside the handler, the busy-wait of the send included, it is at most
\* FrameLength, so the 8-bit counter never wraps.
C5_Range ==
    /\ TimerHandlerIdle => ADC_SPL_COUNT \in 0..(FrameLength - 1)
    /\ ADC_SPL_COUNT \in 0..FrameLength
    /\ FrameLength < UINT8

\* The handler spins in the send of the last sample of a block with the
\* counter at FrameLength.
C5_Witness ==
    /\ top = "t70"
    /\ ~UDRE
    /\ FrameLength = ADC_SPL_TH
    /\ ADC_SPL_COUNT = ADC_SPL_TH

----------------------------------------------------------------------------
(* C6 *)
\* C6 as stated: ADC_SPL_COUNT changes only inside the conversion-
\* completion handler ISR(ADC_vect); the tick handler, the setup code and
\* the background loop leave it unchanged.
C6_Original ==
    [][ADC_SPL_COUNT' # ADC_SPL_COUNT => top \in AdcPcs]_vars

\* C6 as amended: ADC_SPL_COUNT changes only inside the timer-tick handler
\* ISR(TIMER0_COMPA_vect); the completion handler ISR(ADC_vect), the setup
\* code and the background loop leave it unchanged.
C6_TimerHandlerOnly ==
    [][ADC_SPL_COUNT' # ADC_SPL_COUNT
          => (top \in TimerPcs /\ pc' = goto(top'))]_vars

\* The completion handler runs in the middle of a block.
C6_Witness ==
    /\ top = "a97"
    /\ ADC_SPL_COUNT = 2
    /\ Len(sent) = 6

----------------------------------------------------------------------------
(* C7 *)
\* C7: every entry of the tick handler starts at line 57; the store of
\* line 57 leaves a conversion requested (ADSC set) whatever the converter
\* was doing; and the check of line 66 is reached only from that store.
C7_AlwaysStart ==
    [][/\ (Len(pc') > Len(pc) /\ top' \in TimerPcs) => top' = "t57r"
       /\ (top = "t57r" /\ pc' # pc) => top' = "t57w"
       /\ (top = "t57w" /\ pc' # pc) => (ADSC' /\ top' = "t66")
       /\ (top' = "t66" /\ pc' # pc) => top = "t57w"]_vars

\* The request was issued while a result was ready and not yet consumed.
C7_Witness ==
    /\ top = "t66"
    /\ rmw
    /\ ADSC
    /\ Len(sent) > 0

----------------------------------------------------------------------------
(* C8 *)
\* C8: at most one handler is on the stack, above main, with interrupts
\* disabled while it runs; so at most one USART_Transmit call is in flight
\* and no other handler runs between two steps of the tick handler.
C8_NoNesting ==
    /\ Len(pc) \in {1, 2}
    /\ pc[1] \in MainPcs
    /\ Len(pc) = 2 => (top \in TimerPcs \cup AdcPcs /\ ~SREG_I)
    /\ Cardinality({i \in DOMAIN pc : pc[i] \in {"t70", "t86"}}) <= 1

\* The tick handler spins in the send while the tick and the completion
\* interrupts are both pending.
C8_Witness ==
    /\ BusyWaiting
    /\ OCF0A
    /\ ADIF
    /\ Len(pc) = 2

----------------------------------------------------------------------------
(* C9 *)
\* C9: every byte of the output stream equal to the terminator value was
\* written by the terminator call of line 86, never by the sample call.
C9_NoCollision ==
    \A i \in DOMAIN sent : sent[i].byte = TERMINATOR => IsTerminator(i)

----------------------------------------------------------------------------
(* C10 *)
\* C10: a byte is written to UDR0 only when the transmit buffer is empty
\* (UDRE set, nothing pending); while the buffer is full the caller stays
\* in the call; a pending byte leaves the buffer only for the shift
\* register; and the call returns in the step that writes the byte,
\* whatever the shift register is doing.
C10_SendWhenEmpty ==
    [][/\ sent' # sent =>
             /\ UDRE /\ UDR0 = None
             /\ UDR0' = sent'[Len(sent')].byte /\ ~UDRE'
             /\ top \in {"t70", "t86"} /\ top' # top
             /\ TSR' = TSR
       /\ (top \in {"t70", "t86"} /\ ~UDRE) => pc' = pc
       /\ (UDR0 # None /\ UDR0' # UDR0) => (UDR0' = None /\ TSR' = UDR0)
       /\ UDRE' <=> (UDR0' = None)]_vars

\* The handler has returned while its byte is still in the buffer and the
\* previous one still in the shift register.
C10_Witness ==
    /\ HandlerIdle
    /\ UDR0 # None
    /\ TSR # None
    /\ Len(sent) >= 2

----------------------------------------------------------------------------
(* C11 *)
\* C11: with FrameLength = 1 every sample byte in the stream is immediately
\* followed by a terminator -- the last byte written is a sample only while
\* the handler that wrote it stands at the terminator call of line 86 -- and
\* ADC_SPL_COUNT is 0 whenever no handler is executing.
C11_FrameOfOne ==
    FrameLength = 1 =>
        /\ \A i \in DOMAIN sent :
              IsSample(i) =>
                  IF i < Len(sent) THEN IsTerminator(i + 1) ELSE top = "t86"
        /\ \A i \in DOMAIN sent :
              IsTerminator(i) => (i > 1 /\ IsSample(i - 1))
        /\ HandlerIdle => ADC_SPL_COUNT = 0

\* Three samples, each with its terminator, the handler returned; and a
\* fourth sample whose terminator is the next byte to be written.
C11_Witness ==
    /\ FrameLength = 1
    /\ Len(sent) = 7
    /\ IsSample(7)
    /\ IsTerminator(6)
    /\ top = "t86"
    /\ ADC_SPL_COUNT = 1

----------------------------------------------------------------------------
(* C12 *)
\* C12: while a handler spins in USART_Transmit on a transmit buffer that
\* stays full, every step leaves it spinning there: it does not return, no
\* byte is written, ADC_SPL_COUNT does not change, no other handler is
\* entered (I stays clear, the stack keeps its two frames), and the code has
\* no other place to go (no timeout, no error value).  So a buffer that
\* never empties again holds the handler in the call for ever.
C12_FailStop ==
    [][(BusyWaiting /\ ~UDRE') =>
          /\ pc' = pc
          /\ BusyWaiting'
          /\ sent' = sent
          /\ ADC_SPL_COUNT' = ADC_SPL_COUNT
          /\ arg' = arg
          /\ ~SREG_I /\ ~SREG_I'
          /\ Len(pc') = 2]_vars

\* The handler spins in the terminator's send while a tick and a completed
\* conversion both wait to be served.
C12_Witness ==
    /\ top = "t86"
    /\ ~UDRE
    /\ TSR # None
    /\ OCF0A
    /\ ADIF
    /\ FrameLength = 2
    /\ ADC_SPL_COUNT = FrameLength

----------------------------------------------------------------------------
(* C13 *)
\* C13: in a run whose transmit buffer always empties again, every handler
\* that was entered returns to the background loop; and a handler that is
\* not spinning in USART_Transmit on a full buffer always has a next step
\* to take, so that busy-wait is the only place where it can wait.
C13_HandlersReturn ==
    /\ [](~HandlerIdle =>
             (BusyWaiting \/ ENABLED (TIMER0_COMPA_vect \/ ADC_vect)))
    /\ (~HandlerIdle) ~> (HandlerIdle /\ top = "loop")

\* The tick handler has to wait for the buffer at the terminator's send,
\* after the run's history window has filled.
C13_Witness ==
    /\ Endless
    /\ BusyWaiting
    /\ top = "t86"
    /\ Len(sent) = SentLimit
    /\ Len(acq) = SentLimit

----------------------------------------------------------------------------
(* C14 *)
\* C14: every sample byte written is floor(r / 4), the high-order 8 bits of
\* the 10-bit result r that the data register held when line 70 read ADCH,
\* for every r in 0..1023; nothing is added to it or multiplied into it on
\* the way from the register to UDR0.
C14_HighEightBits ==
    /\ Len(raws) = Len(acq)
    /\ \A k \in DOMAIN acq :
          /\ raws[k] \in RawResults
          /\ acq[k] = raws[k] \div 4
    /\ \A i \in DOMAIN sent :
          IsSample(i) =>
              LET k == Cardinality({j \in 1..i : IsSample(j)}) IN
              sent[i].byte = raws[k] \div 4
    /\ arg # None => arg = raws[Len(raws)] \div 4
    /\ ADLAR => ADCH = ADCres \div 4

\* The largest result, 1023, was converted, read and written as 255.
C14_Witness ==
    /\ AnalogIn = {1023}
    /\ raws # <<>>
    /\ raws[Len(raws)] = 1023
    /\ sent # <<>>
    /\ IsSample(Len(sent))
    /\ sent[Len(sent)].byte = 255

----------------------------------------------------------------------------
(* C15 *)
\* C15: every read of ADCH whose value is sent as a sample (line 70) finds
\* a conversion completed since the previous such read, so each byte
\* belongs to a conversion of its own: no result is sent twice and none is
\* sent before the first conversion has completed.
C15_OncePerConversion ==
    [][(top = "t68" /\ pc' # pc) => unread]_vars

----------------------------------------------------------------------------
(* C16 *)
\* The sample bytes written since the last terminator, or since the start
\* of the stream when none was written yet.
SinceTerminator ==
    LET ts == {i \in DOMAIN sent : IsTerminator(i)}
        last == IF ts = {} THEN 0 ELSE CHOOSE i \in ts : \A j \in ts : j <= i
    IN  Cardinality({i \in (last + 1)..Len(sent) : IsSample(i)})

\* C16: in every state in which no interrupt handler is executing,
\* ADC_SPL_COUNT equals the number of sample bytes written since the last
\* terminator (since the start if there is none), which is the number of
\* accepted samples modulo FrameLength.
C16_CounterIsFill ==
    HandlerIdle =>
        /\ ADC_SPL_COUNT = SinceTerminator
        /\ ADC_SPL_COUNT = Len(acq) % FrameLength
        /\ Len(acq) = NumSamples

\* Main runs alone with two samples of the second block of three written.
C16_Witness ==
    /\ HandlerIdle
    /\ FrameLength = 3
    /\ Len(acq) = 5
    /\ Len(sent) = 6
    /\ SinceTerminator = 2
    /\ ADC_SPL_COUNT = 2

----------------------------------------------------------------------------
(* C17 *)
\* C17: in a run whose transmit buffer always empties again, if samples are
\* accepted (line 68) again and again then terminators are written (line
\* 86) again and again, so the counter never stays below FrameLength for
\* ever; and the run has no last tick: the tick handler is entered again
\* and again for as long as the device runs.
C17_FramingLive ==
    /\ ([]<><<T68_Count>>_vars) => ([]<><<T86_SendTerminator>>_vars)
    /\ []<><<IRQ_TIMER0_COMPA>>_vars

\* A block of two was terminated after the history window had filled, with
\* a fresh result already waiting for the next block.
C17_Witness ==
    /\ Endless
    /\ FrameLength = 2
    /\ top = "t89"
    /\ Len(sent) = SentLimit
    /\ IsTerminator(Len(sent))
    /\ ADC_SPL_COUNT = FrameLength
    /\ unread

----------------------------------------------------------------------------
(* C18 *)
\* The transmitter, Timer 0 and the ADC (left-adjusted) are set up.
Configured == TXEN0 /\ CS0 /\ ADEN /\ ADLAR

\* C18: I is clear from the entry of main until line 184, which is reached
\* only with the USART, Timer 0 and the ADC configured, so no handler is
\* entered before main is at its loop; until the first handler is entered
\* ADC_SPL_COUNT is 0 and no byte has been written; and no step taken while
\* main runs alone, before or after, writes a byte or changes ADC_SPL_COUNT.
C18_SetupFirst ==
    /\ [](/\ SREG_I => (pc[1] = "loop" /\ Configured)
          /\ pc[1] # "loop" => (HandlerIdle /\ ~entered)
          /\ ~entered => (HandlerIdle /\ ADC_SPL_COUNT = 0 /\ sent = <<>>))
    /\ [][/\ Len(pc') > Len(pc) => (pc[1] = "loop" /\ Configured)
          /\ (~entered /\ entered') =>
                 (Len(pc') = 2 /\ ADC_SPL_COUNT' = 0 /\ sent' = <<>>)
          /\ HandlerIdle =>
                 (sent' = sent /\ ADC_SPL_COUNT' = ADC_SPL_COUNT)]_vars

\* The first handler ever entered, at its first statement: nothing was
\* converted, counted or written before.
C18_Witness ==
    /\ top = "t57r"
    /\ pc[1] = "loop"
    /\ ~unread
    /\ acq = <<>>
    /\ sent = <<>>
    /\ ADC_SPL_COUNT = 0
    /\ Configured

====
